---- MODULE Spec2Model ----
(***************************************************************************)
(* Model of the API-gateway token authorizer                               *)
(* (auth-service/backend/lambda/authorizer/authorizer.py).                 *)
(*                                                                         *)
(* Python values are modelled as tagged records, strings as sequences of   *)
(* text chunks, dicts as insertion-ordered sequences of key/value pairs.   *)
(* Exceptions are modelled as outcome records carrying the exception class *)
(* and its message.                                                        *)
(***************************************************************************)
EXTENDS Integers, Sequences, FiniteSets, TLC

----------------------------------------------------------------------------
(* Python values *)

Str(chunks) == [ty |-> "str", s |-> chunks, l |-> <<>>]
List(items) == [ty |-> "list", s |-> <<>>, l |-> items]
PyNone == [ty |-> "null", s |-> <<>>, l |-> <<>>]
Num(digits) == [ty |-> "num", s |-> <<digits>>, l |-> <<>>]

(* dict: insertion-ordered sequence of [k, v]; keys are chunk sequences *)
EmptyDict == <<>>
DictHas(d, key) == \E i \in 1..Len(d) : d[i].k = key
DictGet(d, key, default) ==
    IF DictHas(d, key)
    THEN d[CHOOSE i \in 1..Len(d) : d[i].k = key].v
    ELSE default
(* d[key] = val : overwrite in place when the key exists, else append *)
DictSet(d, key, val) ==
    IF DictHas(d, key)
    THEN [i \in 1..Len(d) |-> IF d[i].k = key THEN [k |-> key, v |-> val] ELSE d[i]]
    ELSE Append(d, [k |-> key, v |-> val])

(* iter(value): a list yields its items, a str its characters; None and    *)
(* numbers are not iterable (TypeError)                                    *)
Iterable(val) == val.ty \in {"list", "str"}
IterItems(val) ==
    IF val.ty = "list" THEN val.l
    ELSE [i \in 1..Len(val.s) |-> Str(<<val.s[i]>>)]

(* sub in msg, for sequences of words *)
Contains(sub, msg) ==
    \E i \in 0..(Len(msg) - Len(sub)) :
        \A j \in 1..Len(sub) : msg[i + j] = sub[j]

----------------------------------------------------------------------------
(* Configuration (module level, lines 17-25) *)

required_env_vars == <<"AWS_REGION", "USER_POOL_ID", "CLIENT_ID", "POLICY_STORE_ID">>

REGION == "us-east-1"
USER_POOL_ID == "pool-1"
CLIENT_ID == Str(<<"client-1">>)
POLICY_STORE_ID == Str(<<"store-1">>)

expected_issuer(region, user_pool_id) ==
    Str(<<"https://cognito-idp.", region, ".amazonaws.com/", user_pool_id>>)

----------------------------------------------------------------------------
(* Identity provider: the signing keys it publishes rotate over epochs;    *)
(* epoch e publishes the previous and the current key.                     *)

MaxRotations == 1
KeysAt(e) == {e, e + 1}
EmptyJwks == {}

(* Outcomes of the HTTP GET of lines 37-39, and the exception each raises: *)
(* requests.get (Timeout), raise_for_status (HTTPError), response.json     *)
(* (requests' JSONDecodeError)                                             *)
FetchOutcomes == {"ok", "timeout", "http_error", "bad_body"}
RaisedBy(outcome) ==
    CASE outcome = "ok" -> "none"
      [] outcome = "timeout" -> "Timeout"
      [] outcome = "http_error" -> "HTTPError"
      [] outcome = "bad_body" -> "JSONDecodeError"

(* The subclasses of requests.RequestException *)
RequestException == {"Timeout", "HTTPError", "JSONDecodeError", "ConnectionError"}

(* Faulty variant: only the HTTP status error is caught *)
fetch_jwks_status_only(outcome, published) ==
    IF RaisedBy(outcome) = "none" THEN [exc |-> "none", jwks |-> published]
    ELSE IF RaisedBy(outcome) = "HTTPError" THEN [exc |-> "none", jwks |-> EmptyJwks]
    ELSE [exc |-> RaisedBy(outcome), jwks |-> EmptyJwks]

(* fetch_jwks: returns the published key set, or the empty dict when the   *)
(* request raised a RequestException; any other exception propagates       *)
fetch_jwks(outcome, published) ==
    IF RaisedBy(outcome) = "none" THEN [exc |-> "none", jwks |-> published]
    ELSE IF RaisedBy(outcome) \in RequestException
    THEN [exc |-> "none", jwks |-> EmptyJwks]
    ELSE [exc |-> RaisedBy(outcome), jwks |-> EmptyJwks]

(* refresh_jwks_and_retry, lines 69-70: the global is rebound to the new set *)
replace_cache_keep_on_empty(cache, new_jwks) ==
    IF new_jwks = {} THEN cache ELSE new_jwks
replace_cache_merge(cache, new_jwks) == cache \cup new_jwks
replace_cache(cache, new_jwks) == new_jwks

----------------------------------------------------------------------------
(* Tokens: a compact JWT is three segments header.payload.signature;       *)
(* segment chunks name entries of the tables below.                        *)

K(name) == <<name>>
AUD == K("aud")
ISS == K("iss")
USERNAME == K("cognito:username")
GROUPS == K("cognito:groups")
PREFIX == "custom:"

Pair(key, val) == [k |-> key, v |-> val]
GoodIss == expected_issuer(REGION, USER_POOL_ID)
BaseClaims == <<Pair(AUD, CLIENT_ID), Pair(ISS, GoodIss)>>
S(text) == Str(<<text>>)

Headers ==
    [hname \in {"h0", "h1", "h2", "h9", "hHS"} |->
        CASE hname = "h0" -> [alg |-> "RS256", kid |-> 0]
          [] hname = "h1" -> [alg |-> "RS256", kid |-> 1]
          [] hname = "h2" -> [alg |-> "RS256", kid |-> 2]
          [] hname = "h9" -> [alg |-> "RS256", kid |-> 9]
          [] hname = "hHS" -> [alg |-> "HS256", kid |-> 1]]

PayloadNames ==
    {"full", "min", "aud", "noaud", "iss", "exp", "gnull", "gempty", "gstr",
     "gnum", "cgroup", "cc", "unull"}

Payloads ==
    [pname \in PayloadNames |->
        CASE pname = "full" ->
                [expired |-> FALSE,
                 claims |-> BaseClaims \o
                    <<Pair(USERNAME, S("alice")),
                      Pair(GROUPS, List(<<S("admins"), S("users")>>)),
                      Pair(<<PREFIX, "department">>, S("finance"))>>]
          [] pname = "min" ->
                [expired |-> FALSE, claims |-> BaseClaims]
          [] pname = "aud" ->
                [expired |-> FALSE,
                 claims |-> <<Pair(AUD, S("client-2")), Pair(ISS, GoodIss),
                              Pair(USERNAME, S("alice"))>>]
          [] pname = "noaud" ->
                [expired |-> FALSE,
                 claims |-> <<Pair(ISS, GoodIss), Pair(USERNAME, S("alice"))>>]
          [] pname = "iss" ->
                [expired |-> FALSE,
                 claims |-> <<Pair(AUD, CLIENT_ID),
                              Pair(ISS, expected_issuer(REGION, "pool-2")),
                              Pair(USERNAME, S("alice"))>>]
          [] pname = "exp" ->
                [expired |-> TRUE,
                 claims |-> BaseClaims \o <<Pair(USERNAME, S("alice"))>>]
          [] pname = "gnull" ->
                [expired |-> FALSE,
                 claims |-> BaseClaims \o
                    <<Pair(USERNAME, S("bob")), Pair(GROUPS, PyNone)>>]
          [] pname = "gempty" ->
                [expired |-> FALSE,
                 claims |-> BaseClaims \o
                    <<Pair(USERNAME, S("bob")), Pair(GROUPS, List(<<>>))>>]
          [] pname = "gstr" ->
                [expired |-> FALSE,
                 claims |-> BaseClaims \o
                    <<Pair(USERNAME, S("bob")), Pair(GROUPS, Str(<<"d", "ev">>))>>]
          [] pname = "gnum" ->
                [expired |-> FALSE,
                 claims |-> BaseClaims \o
                    <<Pair(USERNAME, S("bob")), Pair(GROUPS, Num("7"))>>]
          [] pname = "cgroup" ->
                [expired |-> FALSE,
                 claims |-> BaseClaims \o
                    <<Pair(USERNAME, S("carol")),
                      Pair(GROUPS, List(<<S("users")>>)),
                      Pair(<<PREFIX, "group">>, S("admins"))>>]
          [] pname = "cc" ->
                [expired |-> FALSE,
                 claims |-> BaseClaims \o
                    <<Pair(USERNAME, S("carol")),
                      Pair(<<PREFIX, "department">>, S("finance")),
                      Pair(<<PREFIX, PREFIX, "department">>, S("sales")),
                      Pair(<<PREFIX, "cost", PREFIX, "center">>, Num("42")),
                      Pair(<<"department">>, S("plain")),
                      Pair(<<"x-", PREFIX, "team">>, S("blue"))>>]
          [] pname = "unull" ->
                [expired |-> FALSE,
                 claims |-> BaseClaims \o
                    <<Pair(USERNAME, PyNone),
                      Pair(GROUPS, List(<<S("users")>>))>>]]

Signatures == {"sig-idp", "sig-forged"}
BEARER == "Bearer "

IsCompactJwt(segs) ==
    /\ Len(segs) = 3
    /\ segs[1] \in DOMAIN Headers
    /\ segs[2] \in DOMAIN Payloads
    /\ segs[3] \in Signatures

----------------------------------------------------------------------------
(* Exceptions: an outcome is [exc, msg, val]; exc = "none" is a normal     *)
(* return of val.                                                          *)

Ok(val) == [exc |-> "none", msg |-> <<>>, val |-> val]
Raise(class, msg) == [exc |-> class, msg |-> msg, val |-> EmptyDict]

KeyNotFoundText == <<"Key", "not", "found">>
MsgKeyNotFound == <<"invalid_key:", "Key", "not", "found">>
MsgDecode == <<"decode_error:", "Invalid", "input", "segments", "length">>
MsgAlg == <<"unsupported_algorithm:">>
MsgBadSig == <<"bad_signature:">>
MsgExpired == <<"expired_token:", "The", "token", "is", "expired">>

(* Faulty variant: the signature is not verified *)
decode_without_signature(token, jwks) ==
    IF ~IsCompactJwt(token.s) THEN Raise("JoseError", MsgDecode)
    ELSE LET h == Headers[token.s[1]]
             p == Payloads[token.s[2]]
         IN  IF h.alg # "RS256" THEN Raise("JoseError", MsgAlg)
             ELSE IF h.kid \notin jwks THEN Raise("JoseError", MsgKeyNotFound)
             ELSE IF p.expired THEN Raise("JoseError", MsgExpired)
             ELSE Ok(p.claims)

(* decode_and_validate_token: JWT_VERIFIER.decode(token, jwks) followed by *)
(* claims.validate(); raises JoseError on any validation issue.            *)
decode_and_validate_token(token, jwks) ==
    IF ~IsCompactJwt(token.s) THEN Raise("JoseError", MsgDecode)
    ELSE LET h == Headers[token.s[1]]
             p == Payloads[token.s[2]]
         IN  IF h.alg # "RS256" THEN Raise("JoseError", MsgAlg)
             ELSE IF h.kid \notin jwks THEN Raise("JoseError", MsgKeyNotFound)
             ELSE IF token.s[3] # "sig-idp" THEN Raise("JoseError", MsgBadSig)
             ELSE IF p.expired THEN Raise("JoseError", MsgExpired)
             ELSE Ok(p.claims)

(* Faulty variant: the text is looked for in another letter case *)
SuggestsMissingKey_lowercase(exc_msg) == Contains(<<"key", "not", "found">>, exc_msg)

(* Faulty variant: every verification error is taken for a missing key *)
SuggestsMissingKey_any(exc_msg) == Len(exc_msg) > 0

(* refresh_jwks_and_retry, line 65: the test that selects the refresh *)
SuggestsMissingKey(exc_msg) == Contains(KeyNotFoundText, exc_msg)

(* Faulty variant: the issuer is not compared *)
validate_claims_audience_only(claims, client_id, region, user_pool_id) ==
    IF DictGet(claims, AUD, PyNone) # client_id
    THEN Raise("ValueError", <<"Invalid", "audience">>)
    ELSE Ok(EmptyDict)

(* validate_claims *)
validate_claims(claims, client_id, region, user_pool_id) ==
    IF DictGet(claims, AUD, PyNone) # client_id
    THEN Raise("ValueError", <<"Invalid", "audience">>)
    ELSE IF DictGet(claims, ISS, PyNone) # expected_issuer(region, user_pool_id)
    THEN Raise("ValueError", <<"Invalid", "issuer">>)
    ELSE Ok(EmptyDict)

(* key.startswith("custom:") and key.replace("custom:", "") on chunked names *)
StartsWith(name, chunk) == Len(name) > 0 /\ name[1] = chunk
ReplaceAll(name, chunk) == SelectSeq(name, LAMBDA c : c # chunk)

(* extract_custom_attributes: dict comprehension in claim order; a later   *)
(* entry with an equal key overwrites the earlier one                      *)
RECURSIVE ExtractFrom(_, _)
ExtractFrom(claims, acc) ==
    IF claims = <<>> THEN acc
    ELSE LET c == Head(claims)
         IN  ExtractFrom(Tail(claims),
                IF StartsWith(c.k, PREFIX)
                THEN DictSet(acc, ReplaceAll(c.k, PREFIX), c.v)
                ELSE acc)

extract_custom_attributes(claims) == ExtractFrom(claims, EmptyDict)

(* build_auth_request *)
wrap_value(val) == [string |-> val]

RECURSIVE WrapInto(_, _)
WrapInto(custom_attributes, attrs) ==
    IF custom_attributes = <<>> THEN attrs
    ELSE LET c == Head(custom_attributes)
         IN  WrapInto(Tail(custom_attributes), DictSet(attrs, c.k, wrap_value(c.v)))

(* Faulty variant: no "group" attribute when the fallback group applies *)
principal_attributes_no_fallback(group_value, custom_attributes) ==
    WrapInto(custom_attributes,
             IF group_value = Str(<<"Unknown">>) THEN EmptyDict
             ELSE <<Pair(K("group"), wrap_value(group_value))>>)

principal_attributes(group_value, custom_attributes) ==
    WrapInto(custom_attributes, <<Pair(K("group"), wrap_value(group_value))>>)

USER_TYPE == "ExampleCo::Connectiv::User"
ACTION_TYPE == "ExampleCo::Connectiv::Action"
RESOURCE_TYPE == "ExampleCo::Connectiv::Resource"

(* Faulty variant: the entity of the list is named by the group, not the principal *)
build_auth_request_other_entity(policy_store_id, principal_id, group_value, custom_attributes, action_id, resource_id) ==
    [policyStoreId |-> policy_store_id,
     principal |-> [entityType |-> USER_TYPE, entityId |-> principal_id],
     action |-> [actionType |-> ACTION_TYPE, actionId |-> action_id],
     resource |-> [entityType |-> RESOURCE_TYPE, entityId |-> resource_id],
     entities |-> [entityList |->
        <<[identifier |-> [entityType |-> USER_TYPE, entityId |-> group_value],
           attributes |-> principal_attributes(group_value, custom_attributes)]>>]]

build_auth_request(policy_store_id, principal_id, group_value, custom_attributes, action_id, resource_id) ==
    [policyStoreId |-> policy_store_id,
     principal |-> [entityType |-> USER_TYPE, entityId |-> principal_id],
     action |-> [actionType |-> ACTION_TYPE, actionId |-> action_id],
     resource |-> [entityType |-> RESOURCE_TYPE, entityId |-> resource_id],
     entities |-> [entityList |->
        <<[identifier |-> [entityType |-> USER_TYPE, entityId |-> principal_id],
           attributes |-> principal_attributes(group_value, custom_attributes)]>>]]

(* Outcomes of VP_CLIENT.is_authorized: a response dict, a ClientError     *)
(* (body is its exc.response["Error"]), or any other exception             *)
DECISION == K("decision")
VpResponse(d) == [kind |-> "response", body |-> d]
VpOutcomes ==
    { VpResponse(<<Pair(DECISION, S("ALLOW"))>>),
      VpResponse(<<Pair(DECISION, S("DENY"))>>),
      VpResponse(<<Pair(DECISION, S("allow"))>>),
      VpResponse(<<Pair(DECISION, PyNone)>>),
      VpResponse(EmptyDict),
      [kind |-> "ClientError", body |-> <<Pair(K("Code"), S("ResourceNotFoundException"))>>],
      [kind |-> "ClientError", body |-> EmptyDict],
      [kind |-> "EndpointConnectionError", body |-> EmptyDict],
      [kind |-> "ReadTimeoutError", body |-> EmptyDict] }

(* Faulty variant: a response without a decision counts as ALLOW *)
evaluate_policy_default_allow(vp) ==
    IF vp.kind = "response"
    THEN LET decision == DictGet(vp.body, DECISION, S("ALLOW"))
         IN  Ok(IF decision = S("ALLOW") THEN "Allow" ELSE "Deny")
    ELSE Ok("Deny")

(* Faulty variant: the decision is compared in another letter case *)
evaluate_policy_wrong_case(vp) ==
    IF vp.kind = "response"
    THEN LET decision == DictGet(vp.body, DECISION, S("DENY"))
         IN  Ok(IF decision = S("Allow") THEN "Allow" ELSE "Deny")
    ELSE Ok("Deny")

(* evaluate_policy *)
evaluate_policy(vp) ==
    IF vp.kind = "response"
    THEN LET decision == DictGet(vp.body, DECISION, S("DENY"))
         IN  Ok(IF decision = S("ALLOW") THEN "Allow" ELSE "Deny")
    ELSE IF vp.kind = "ClientError"
    THEN Ok("Deny")
    ELSE Ok("Deny")

(* generate_policy; context_data is [none, d]: None or a dict *)
NoContext == [none |-> TRUE, d |-> EmptyDict]
CONTEXT_KEY == K("username")

(* Faulty variant: the context is replaced by the principal entry alone *)
generate_policy_fresh_context(principal_id, effect, resource, context_data) ==
    [principalId |-> principal_id,
     policyDocument |->
        [Version |-> "2012-10-17",
         Statement |-> <<[Action |-> "execute-api:Invoke",
                          Effect |-> effect,
                          Resource |-> resource]>>],
     context |-> <<Pair(K("username"), principal_id)>>]

generate_policy(principal_id, effect, resource, context_data) ==
    LET ctx == IF context_data.none THEN EmptyDict ELSE context_data.d
    IN  [principalId |-> principal_id,
         policyDocument |->
            [Version |-> "2012-10-17",
             Statement |-> <<[Action |-> "execute-api:Invoke",
                              Effect |-> effect,
                              Resource |-> resource]>>],
         context |-> DictSet(ctx, CONTEXT_KEY, principal_id)]

----------------------------------------------------------------------------
(* Events delivered by the gateway *)

TOKEN == K("authorizationToken")
ARN == K("methodArn")
ARN1 == S("arn:aws:execute-api:us-east-1:1:api/prod/GET/hello")
ARN2 == S("arn:aws:execute-api:us-east-1:1:api/prod/POST/admin")

Jwt(h, p, sg) == <<h, p, sg>>
Bearer(segs) == Str(<<BEARER>> \o segs)

TokenValues ==
    { Bearer(Jwt("h1", pn, "sig-idp")) : pn \in PayloadNames }
    \cup { Bearer(Jwt(hn, "full", "sig-idp")) : hn \in DOMAIN Headers }
    \cup { Bearer(Jwt("h2", "exp", "sig-idp")),
           Bearer(Jwt("h1", "full", "sig-forged")),
           Bearer(Jwt("h9", "full", "sig-forged")),
           Str(Jwt("h1", "full", "sig-idp")),
           Bearer(<<BEARER>> \o Jwt("h1", "full", "sig-idp")),
           Str(<<"garbage">>),
           Str(<<>>),
           PyNone,
           Num("7") }

Events ==
    { <<Pair(TOKEN, t), Pair(ARN, ARN1)>> : t \in TokenValues }
    \cup { <<Pair(TOKEN, Bearer(Jwt("h1", "full", "sig-idp"))), Pair(ARN, ARN2)>>,
           <<Pair(TOKEN, Bearer(Jwt("h1", "full", "sig-idp")))>>,
           <<Pair(ARN, ARN1)>>,
           EmptyDict }

----------------------------------------------------------------------------
(* lambda_handler, lines 207-213 and 226-241 *)

DEFAULT_PRINCIPAL == S("unknown")
DEFAULT_GROUP == S("Unknown")

(* token[len("Bearer "):] when token.startswith("Bearer ") *)
StripBearer(token) ==
    IF StartsWith(token.s, BEARER) THEN Str(Tail(token.s)) ELSE token

(* next(iter(claims.get("cognito:groups", [])), "Unknown") *)
first_group(claims) ==
    LET groups == DictGet(claims, GROUPS, List(<<>>))
    IN  IF ~Iterable(groups) THEN Raise("TypeError", <<"object", "is", "not", "iterable">>)
        ELSE IF Len(IterItems(groups)) = 0 THEN Ok(DEFAULT_GROUP)
        ELSE Ok(Head(IterItems(groups)))

(* Faulty variant: the principal is extracted before the claims are validated *)
Authorize_extract_first(claims) ==
    LET checked == validate_claims(claims, CLIENT_ID, REGION, USER_POOL_ID)
        principal_id == DictGet(claims, USERNAME, DEFAULT_PRINCIPAL)
        group == first_group(claims)
        custom_attrs == extract_custom_attributes(claims)
    IN  IF checked.exc # "none"
        THEN [exc |-> checked.exc, principal_id |-> principal_id,
              custom_attrs |-> EmptyDict, requests |-> <<>>]
        ELSE IF group.exc # "none"
        THEN [exc |-> group.exc, principal_id |-> principal_id,
              custom_attrs |-> EmptyDict, requests |-> <<>>]
        ELSE [exc |-> "none", principal_id |-> principal_id,
              custom_attrs |-> custom_attrs,
              requests |-> <<build_auth_request(POLICY_STORE_ID, principal_id,
                                group.val, custom_attrs,
                                S("access"), S("my-resource"))>>]

(* lines 224-241: from verified claims to the authorization request.       *)
(* Result: [exc, principal_id, custom_attrs, requests], requests holding   *)
(* the request built, if any.                                              *)
Authorize(claims) ==
    LET checked == validate_claims(claims, CLIENT_ID, REGION, USER_POOL_ID)
        principal_id == DictGet(claims, USERNAME, DEFAULT_PRINCIPAL)
        group == first_group(claims)
        custom_attrs == extract_custom_attributes(claims)
    IN  IF checked.exc # "none"
        THEN [exc |-> checked.exc, principal_id |-> DEFAULT_PRINCIPAL,
              custom_attrs |-> EmptyDict, requests |-> <<>>]
        ELSE IF group.exc # "none"
        THEN [exc |-> group.exc, principal_id |-> principal_id,
              custom_attrs |-> EmptyDict, requests |-> <<>>]
        ELSE [exc |-> "none", principal_id |-> principal_id,
              custom_attrs |-> custom_attrs,
              requests |-> <<build_auth_request(POLICY_STORE_ID, principal_id,
                                group.val, custom_attrs,
                                S("access"), S("my-resource"))>>]

----------------------------------------------------------------------------
(* State *)

NumProcs == 2
Procs == 1..NumProcs

VARIABLES
    env,          \* names of the environment variables that are set and non-empty
    phase,        \* "cold" before the module is imported, then "warm" or "failed"
    idpEpoch,     \* the identity provider's current key epoch
    JWKS_CACHE,   \* module global, line 44
    pc,           \* per evaluation: "idle", "fetch", "store", "vp", "done"
    loc,          \* per evaluation: the handler's local variables
    trace,        \* per evaluation: what it has done so far
    out,          \* per evaluation: what lambda_handler returned or raised
    boot,         \* what the module import has done: the key fetch, the client
    call          \* a direct call of generate_policy: its arguments and result

vars == <<env, phase, idpEpoch, JWKS_CACHE, pc, loc, trace, out, boot, call>>

Loc0 ==
    [event |-> EmptyDict, token |-> Str(<<>>), new_jwks |-> EmptyJwks,
     principal_id |-> DEFAULT_PRINCIPAL, custom_attrs |-> EmptyDict,
     requests |-> <<>>]

Trace0 ==
    [attempts |-> 0, firstJwks |-> EmptyJwks, firstMsg |-> <<>>,
     retryJwks |-> <<>>, retryMsg |-> <<>>, fetches |-> 0, stores |-> 0,
     verified |-> "no", claims |-> EmptyDict, checked |-> FALSE,
     vp |-> <<>>, fetchFailed |-> FALSE, fetched |-> <<>>]

Out0 == [raised |-> "none", docs |-> <<>>]

Boot0 == [fetched |-> FALSE, fetchFailed |-> FALSE, jwks |-> <<>>, client |-> FALSE]

Call0 ==
    [principal_id |-> DEFAULT_PRINCIPAL, effect |-> "Deny", resource |-> S("*"),
     context_data |-> NoContext, docs |-> <<>>]

Init ==
    /\ env \in {{required_env_vars[i] : i \in 1..Len(required_env_vars)}}
            \cup {{required_env_vars[i] : i \in (1..Len(required_env_vars)) \ {j}} :
                    j \in 1..Len(required_env_vars)}
    /\ phase = "cold"
    /\ idpEpoch = 0
    /\ JWKS_CACHE = EmptyJwks
    /\ pc = [p \in Procs |-> "idle"]
    /\ loc = [p \in Procs |-> Loc0]
    /\ trace = [p \in Procs |-> Trace0]
    /\ out = [p \in Procs |-> Out0]
    /\ boot = Boot0
    /\ call = Call0

(* Faulty variant: the last required variable is not looked at *)
missing_vars_but_last ==
    SelectSeq(SubSeq(required_env_vars, 1, Len(required_env_vars) - 1),
              LAMBDA var : var \notin env)

(* lines 17-20 *)
missing_vars == SelectSeq(required_env_vars, LAMBDA var : var \notin env)

(* Module import, lines 17-46 *)
ModuleInitWith(outcomes) ==
    /\ phase = "cold"
    /\ IF missing_vars # <<>>
       THEN /\ phase' = "failed"
            /\ UNCHANGED <<JWKS_CACHE, boot>>
       ELSE \E o \in outcomes :
                LET r == fetch_jwks(o, KeysAt(idpEpoch))
                IN  IF r.exc = "none"
                    THEN /\ JWKS_CACHE' = r.jwks
                         /\ phase' = "warm"
                         /\ boot' = [fetched |-> TRUE, fetchFailed |-> (o # "ok"),
                                     jwks |-> <<r.jwks>>, client |-> TRUE]
                    ELSE /\ UNCHANGED JWKS_CACHE
                         /\ phase' = "failed"
                         /\ boot' = [fetched |-> TRUE, fetchFailed |-> (o # "ok"),
                                     jwks |-> <<>>, client |-> FALSE]
    /\ UNCHANGED <<env, idpEpoch, pc, loc, trace, out, call>>

ModuleInit == ModuleInitWith(FetchOutcomes)

(* The identity provider rotates its signing keys *)
RotateKeys ==
    /\ idpEpoch < MaxRotations
    /\ idpEpoch' = idpEpoch + 1
    /\ UNCHANGED <<boot, call, env, phase, JWKS_CACHE, pc, loc, trace, out>>

(* Faulty variant: the statement is scoped to every resource *)
Respond_wildcard(event, principal_id, effect) ==
    [raised |-> "none",
     docs |-> <<generate_policy(principal_id, effect, S("*"), NoContext)>>]

(* Faulty variant: an event without a method ARN is denied *)
Respond_deny_without_arn(event, principal_id, effect) ==
    [raised |-> "none",
     docs |-> <<generate_policy(principal_id,
                                IF DictHas(event, ARN) THEN effect ELSE "Deny",
                                DictGet(event, ARN, S("*")), NoContext)>>]

(* lines 250-251 *)
Respond(event, principal_id, effect) ==
    [raised |-> "none",
     docs |-> <<generate_policy(principal_id, effect,
                                DictGet(event, ARN, S("*")), NoContext)>>]

Escapes(class) == [raised |-> class, docs |-> <<>>]

(* lines 224-248 once the claims are verified: either the request is built *)
(* and the engine call is pending, or the handler ends here                *)
Proceed(p, event, lc, tr, claims) ==
    LET a == Authorize(claims)
        tr2 == [tr EXCEPT !.claims = claims, !.checked = (a.exc # "ValueError")]
        lc2 == [lc EXCEPT !.principal_id = a.principal_id,
                          !.custom_attrs = a.custom_attrs,
                          !.requests = a.requests]
    IN  /\ loc' = [loc EXCEPT ![p] = lc2]
        /\ trace' = [trace EXCEPT ![p] = tr2]
        /\ IF a.exc = "none"
           THEN /\ pc' = [pc EXCEPT ![p] = "vp"]
                /\ out' = [out EXCEPT ![p] = Out0]
           ELSE IF a.exc \in {"JoseError", "ValueError"}
           THEN /\ pc' = [pc EXCEPT ![p] = "done"]
                /\ out' = [out EXCEPT ![p] = Respond(event, a.principal_id, "Deny")]
           ELSE /\ pc' = [pc EXCEPT ![p] = "done"]
                /\ out' = [out EXCEPT ![p] = Escapes(a.exc)]

(* lambda_handler up to the first network call: lines 207-221 *)
Invoke(p, event) ==
    /\ phase = "warm"
    /\ pc[p] = "idle"
    /\ UNCHANGED <<boot, call, env, phase, idpEpoch, JWKS_CACHE>>
    /\ LET raw == DictGet(event, TOKEN, Str(<<>>))
           lc == [Loc0 EXCEPT !.event = event]
       IN  IF raw.ty # "str"
           THEN /\ pc' = [pc EXCEPT ![p] = "done"]
                /\ loc' = [loc EXCEPT ![p] = lc]
                /\ trace' = [trace EXCEPT ![p] = Trace0]
                /\ out' = [out EXCEPT ![p] = Escapes("AttributeError")]
           ELSE LET token == StripBearer(raw)
                    first == decode_and_validate_token(token, JWKS_CACHE)
                    lc1 == [lc EXCEPT !.token = token]
                    tr1 == [Trace0 EXCEPT !.attempts = 1,
                                          !.firstJwks = JWKS_CACHE,
                                          !.firstMsg = first.msg]
                IN  IF first.exc = "none"
                    THEN Proceed(p, event, lc1, [tr1 EXCEPT !.verified = "first"],
                                 first.val)
                    ELSE IF SuggestsMissingKey(first.msg)
                    THEN /\ pc' = [pc EXCEPT ![p] = "fetch"]
                         /\ loc' = [loc EXCEPT ![p] = lc1]
                         /\ trace' = [trace EXCEPT ![p] = tr1]
                         /\ out' = [out EXCEPT ![p] = Out0]
                    ELSE /\ pc' = [pc EXCEPT ![p] = "done"]
                         /\ loc' = [loc EXCEPT ![p] = lc1]
                         /\ trace' = [trace EXCEPT ![p] = tr1]
                         /\ out' = [out EXCEPT ![p] =
                                Respond(event, DEFAULT_PRINCIPAL, "Deny")]

(* refresh_jwks_and_retry, line 67: the HTTP call to the identity provider *)
FetchJwksWith(p, outcomes) ==
    /\ pc[p] = "fetch"
    /\ \E o \in outcomes :
         LET r == fetch_jwks(o, KeysAt(idpEpoch))
             tr == [trace[p] EXCEPT !.fetches = @ + 1, !.fetchFailed = (o # "ok")]
         IN  IF r.exc = "none"
             THEN /\ loc' = [loc EXCEPT ![p].new_jwks = r.jwks]
                  /\ trace' = [trace EXCEPT ![p] = [tr EXCEPT !.fetched = <<r.jwks>>]]
                  /\ pc' = [pc EXCEPT ![p] = "store"]
                  /\ out' = out
             ELSE /\ loc' = loc
                  /\ trace' = [trace EXCEPT ![p] = tr]
                  /\ pc' = [pc EXCEPT ![p] = "done"]
                  /\ out' = [out EXCEPT ![p] =
                        IF r.exc \in {"JoseError", "ValueError"}
                        THEN Respond(loc[p].event, DEFAULT_PRINCIPAL, "Deny")
                        ELSE Escapes(r.exc)]
    /\ UNCHANGED <<boot, call, env, phase, idpEpoch, JWKS_CACHE>>

FetchJwks(p) == FetchJwksWith(p, FetchOutcomes)

(* refresh_jwks_and_retry, lines 71-73: an error of the retry is not      *)
(* handled there; it reaches the except clause of lambda_handler           *)
after_failed_retry_again(exc_msg) ==
    IF SuggestsMissingKey(exc_msg) THEN "fetch" ELSE "done"
after_failed_retry(exc_msg) == "done"

(* Faulty variant: the retry verifies against the set cached before *)
retry_key_set_stale(cache, new_jwks) == cache
(* line 71: the retry verifies against the set just fetched *)
retry_key_set(cache, new_jwks) == new_jwks

(* refresh_jwks_and_retry, lines 69-73, then lambda_handler lines 224-248 *)
StoreAndRetry(p) ==
    /\ pc[p] = "store"
    /\ JWKS_CACHE' = replace_cache(JWKS_CACHE, loc[p].new_jwks)
    /\ UNCHANGED <<boot, call, env, phase, idpEpoch>>
    /\ LET jwks == retry_key_set(JWKS_CACHE, loc[p].new_jwks)
           retry == decode_and_validate_token(loc[p].token, jwks)
           tr1 == [trace[p] EXCEPT !.attempts = @ + 1,
                                   !.stores = @ + 1,
                                   !.retryJwks = <<jwks>>,
                                   !.retryMsg = retry.msg]
       IN  IF retry.exc = "none"
           THEN Proceed(p, loc[p].event, loc[p],
                        [tr1 EXCEPT !.verified = "retry"], retry.val)
           ELSE /\ loc' = loc
                /\ trace' = [trace EXCEPT ![p] = tr1]
                /\ IF after_failed_retry(retry.msg) = "done"
                   THEN /\ pc' = [pc EXCEPT ![p] = "done"]
                        /\ out' = [out EXCEPT ![p] =
                                Respond(loc[p].event, DEFAULT_PRINCIPAL, "Deny")]
                   ELSE /\ pc' = [pc EXCEPT ![p] = after_failed_retry(retry.msg)]
                        /\ out' = out

(* lambda_handler lines 243-251: the engine call and the response *)
IsAuthorizedWith(p, outcomes) ==
    /\ pc[p] = "vp"
    /\ \E vp \in outcomes :
         LET e == evaluate_policy(vp)
         IN  /\ trace' = [trace EXCEPT ![p].vp = Append(@, vp)]
             /\ out' = [out EXCEPT ![p] =
                    IF e.exc = "none"
                    THEN Respond(loc[p].event, loc[p].principal_id, e.val)
                    ELSE Escapes(e.exc)]
    /\ pc' = [pc EXCEPT ![p] = "done"]
    /\ UNCHANGED <<boot, call, env, phase, idpEpoch, JWKS_CACHE, loc>>

IsAuthorized(p) == IsAuthorizedWith(p, VpOutcomes)

(* The gateway has taken the response; the slot serves the next event *)
Complete(p) ==
    /\ pc[p] = "done"
    /\ pc' = [pc EXCEPT ![p] = "idle"]
    /\ loc' = [loc EXCEPT ![p] = Loc0]
    /\ trace' = [trace EXCEPT ![p] = Trace0]
    /\ out' = [out EXCEPT ![p] = Out0]
    /\ UNCHANGED <<boot, call, env, phase, idpEpoch, JWKS_CACHE>>

(* One execution environment serves one event at a time: evaluations run   *)
(* one after the other in slot 1.                                          *)
Next ==
    \/ ModuleInit
    \/ RotateKeys
    \/ \E event \in Events : Invoke(1, event)
    \/ FetchJwks(1)
    \/ StoreAndRetry(1)
    \/ IsAuthorized(1)
    \/ Complete(1)

Spec == Init /\ [][Next]_vars

(* Several evaluations against the same warm process, interleaved at the   *)
(* handler's network calls.                                                *)
CoreEvents ==
    { <<Pair(TOKEN, Bearer(Jwt(hn, "full", "sig-idp"))), Pair(ARN, ARN1)>> :
        hn \in {"h0", "h2"} }

(* The engine's answers that the interleavings are explored with *)
CoreVpOutcomes ==
    { VpResponse(<<Pair(DECISION, S("ALLOW"))>>),
      VpResponse(<<Pair(DECISION, S("DENY"))>>) }

(* The fetch results that the interleavings are explored with *)
CoreImportOutcomes == FetchOutcomes
CoreFetchOutcomes == {"ok"}

ConcNext ==
    \/ ModuleInitWith(CoreImportOutcomes)
    \/ RotateKeys
    \/ \E p \in Procs, event \in CoreEvents : Invoke(p, event)
    \/ \E p \in Procs : FetchJwksWith(p, CoreFetchOutcomes)
    \/ \E p \in Procs : StoreAndRetry(p)
    \/ \E p \in Procs : IsAuthorizedWith(p, CoreVpOutcomes)
    \/ \E p \in Procs : Complete(p)

ConcSpec == Init /\ [][ConcNext]_vars

(* Two evaluations side by side whose events differ in the method ARN      *)
PairSlots == {1, 2}
PairEvents ==
    { <<Pair(TOKEN, t), Pair(ARN, arn)>> :
        t \in { Bearer(Jwt("h0", "full", "sig-idp")),
                Bearer(Jwt("h2", "full", "sig-idp")),
                Bearer(Jwt("h1", "aud", "sig-idp")) },
        arn \in {ARN1, ARN2} }
    \cup { <<Pair(TOKEN, Bearer(Jwt("h0", "full", "sig-idp")))>>,
           <<Pair(TOKEN, Bearer(Jwt("h2", "full", "sig-idp")))>> }
PairVpOutcomes ==
    CoreVpOutcomes \cup {[kind |-> "ReadTimeoutError", body |-> EmptyDict]}
PairFetchOutcomes == {"ok", "timeout"}

PairNext ==
    \/ ModuleInitWith(PairFetchOutcomes)
    \/ RotateKeys
    \/ \E p \in PairSlots, event \in PairEvents : Invoke(p, event)
    \/ \E p \in PairSlots : FetchJwksWith(p, PairFetchOutcomes)
    \/ \E p \in PairSlots : StoreAndRetry(p)
    \/ \E p \in PairSlots : IsAuthorizedWith(p, PairVpOutcomes)
    \/ \E p \in PairSlots : Complete(p)

PairSpec == Init /\ [][PairNext]_vars

(* The sequential evaluations, where every call to the identity provider   *)
(* and to the policy engine returns or fails in finite time and the code   *)
(* between two calls runs to its end                                       *)
LiveSpec ==
    /\ Spec
    /\ WF_vars(FetchJwks(1))
    /\ WF_vars(StoreAndRetry(1))
    /\ WF_vars(IsAuthorized(1))

(* generate_policy called on its own, with any principal, effect, resource *)
(* and caller-supplied context                                             *)
TENANT == K("tenant")
PrincipalArgs == {S("alice"), S("unknown"), PyNone}
EffectArgs == {"Allow", "Deny"}
ResourceArgs == {ARN1, S("*")}
Given(d) == [none |-> FALSE, d |-> d]
ContextArgs ==
    { NoContext,
      Given(EmptyDict),
      Given(<<Pair(TENANT, S("t1"))>>),
      Given(<<Pair(CONTEXT_KEY, S("mallory"))>>),
      Given(<<Pair(TENANT, S("t1")), Pair(CONTEXT_KEY, S("mallory"))>>),
      Given(<<Pair(CONTEXT_KEY, S("mallory")), Pair(TENANT, S("t1")),
              Pair(K("scope"), List(<<S("read")>>))>>) }

CallGeneratePolicy(principal_id, effect, resource, context_data) ==
    /\ call' = [principal_id |-> principal_id, effect |-> effect,
                resource |-> resource, context_data |-> context_data,
                docs |-> <<generate_policy(principal_id, effect, resource,
                                           context_data)>>]
    /\ UNCHANGED <<env, phase, idpEpoch, JWKS_CACHE, pc, loc, trace, out, boot>>

PolicyNext ==
    \E principal_id \in PrincipalArgs, effect \in EffectArgs,
       resource \in ResourceArgs, context_data \in ContextArgs :
        CallGeneratePolicy(principal_id, effect, resource, context_data)

PolicySpec == Init /\ [][PolicyNext]_vars

----------------------------------------------------------------------------
(* What the properties are stated in: the facts of an evaluation, read off *)
(* the token, the key sets and the engine's answer                         *)

Done(p) == pc[p] = "done"
Returned(p) == out[p].raised = "none" /\ Len(out[p].docs) = 1
Doc(p) == out[p].docs[1]
Statements(p) == Doc(p).policyDocument.Statement
Effect(p) == Statements(p)[1].Effect

(* The token is a well-formed, unexpired RS256 token signed by a key of jwks *)
Genuine(token, jwks) ==
    /\ IsCompactJwt(token.s)
    /\ Headers[token.s[1]].alg = "RS256"
    /\ Headers[token.s[1]].kid \in jwks
    /\ token.s[3] = "sig-idp"
    /\ ~Payloads[token.s[2]].expired

(* Verification gets as far as the key lookup and the key-id is not in jwks *)
KeyMiss(token, jwks) ==
    /\ IsCompactJwt(token.s)
    /\ Headers[token.s[1]].alg = "RS256"
    /\ Headers[token.s[1]].kid \notin jwks

VerifiedFirst(p) ==
    trace[p].attempts >= 1 /\ Genuine(loc[p].token, trace[p].firstJwks)
VerifiedOnRetry(p) ==
    trace[p].retryJwks # <<>> /\ Genuine(loc[p].token, trace[p].retryJwks[1])
Verified(p) == VerifiedFirst(p) \/ VerifiedOnRetry(p)

TokenClaims(p) == Payloads[loc[p].token.s[2]].claims

HasEntry(d, key, val) == \E i \in 1..Len(d) : d[i] = Pair(key, val)
AudIssMatch(claims) ==
    /\ HasEntry(claims, AUD, S("client-1"))
    /\ HasEntry(claims, ISS,
            Str(<<"https://cognito-idp.", "us-east-1", ".amazonaws.com/", "pool-1">>))

EngineCalled(p) == Len(trace[p].vp) > 0
ExplicitAllow(vp) ==
    vp.kind = "response" /\ HasEntry(vp.body, DECISION, S("ALLOW"))
EngineAllowed(p) == EngineCalled(p) /\ ExplicitAllow(trace[p].vp[1])

----------------------------------------------------------------------------
C2_NeverRaises ==
    \A p \in Procs :
        Done(p) =>
            /\ out[p].raised = "none"
            /\ Len(out[p].docs) = 1
            /\ Effect(p) \in {"Allow", "Deny"}

(* C3: when the key-id of the token is absent from the key set of the      *)
(* first verification, the evaluation fetches the key set exactly once and *)
(* retries once, with the fetched set; when the fetched set lacks the key  *)
(* too the result is Deny; no evaluation fetches twice or verifies more    *)
(* than twice.                                                             *)
C3_OneRefreshOneRetry ==
    \A p \in Procs :
        /\ trace[p].fetches <= 1
        /\ trace[p].attempts <= 2
        /\ (Done(p) /\ trace[p].attempts >= 1
                /\ KeyMiss(loc[p].token, trace[p].firstJwks)) =>
              /\ trace[p].fetches = 1
              /\ trace[p].attempts = 2
              /\ trace[p].retryJwks = <<loc[p].new_jwks>>
              /\ KeyMiss(loc[p].token, loc[p].new_jwks) =>
                    /\ Returned(p)
                    /\ Effect(p) = "Deny"
                    /\ ~EngineCalled(p)

(* A key that is missing before and after the refresh *)
C3_Witness ==
    \E p \in Procs :
        /\ Done(p) /\ Returned(p)
        /\ KeyMiss(loc[p].token, trace[p].firstJwks)
        /\ trace[p].fetches = 1
        /\ loc[p].new_jwks # EmptyJwks
        /\ KeyMiss(loc[p].token, loc[p].new_jwks)
        /\ Effect(p) = "Deny"

(* C4: a first verification that fails for another reason than a missing   *)
(* key (malformed or expired token, wrong algorithm, bad signature) is not *)
(* retried: no fetch, no write of the key-set cache, a single verification *)
(* attempt, and the result is Deny.                                        *)
C4_NoRefreshOnOtherFailure ==
    \A p \in Procs :
        (/\ trace[p].attempts >= 1
         /\ ~Genuine(loc[p].token, trace[p].firstJwks)
         /\ ~KeyMiss(loc[p].token, trace[p].firstJwks)) =>
            /\ Done(p)
            /\ trace[p].fetches = 0
            /\ trace[p].stores = 0
            /\ trace[p].attempts = 1
            /\ JWKS_CACHE = trace[p].firstJwks
            /\ Returned(p)
            /\ Effect(p) = "Deny"
            /\ ~EngineCalled(p)

(* An expired token whose key is in the cache *)
C4_Witness ==
    \E p \in Procs :
        /\ Done(p) /\ Returned(p)
        /\ IsCompactJwt(loc[p].token.s)
        /\ Payloads[loc[p].token.s[2]].expired
        /\ ~KeyMiss(loc[p].token, trace[p].firstJwks)
        /\ trace[p].fetches = 0
        /\ Effect(p) = "Deny"

(* C5: a verified token whose audience or issuer differs from the expected *)
(* value yields Deny, and the policy engine is not called for it.          *)
C5_ClaimsMismatchDenies ==
    \A p \in Procs :
        (Verified(p) /\ ~AudIssMatch(TokenClaims(p))) =>
            /\ pc[p] \in {"done", "idle"}
            /\ ~EngineCalled(p)
            /\ loc[p].requests = <<>>
            /\ Done(p) => (Returned(p) /\ Effect(p) = "Deny")

(* A verified token with the right audience and another issuer *)
C5_Witness ==
    \E p \in Procs :
        /\ Done(p) /\ Returned(p)
        /\ Verified(p)
        /\ HasEntry(TokenClaims(p), AUD, S("client-1"))
        /\ ~AudIssMatch(TokenClaims(p))
        /\ Effect(p) = "Deny"

(* C6: the decision is "Allow" exactly when the engine call returns with   *)
(* decision ALLOW; for every other outcome of the call it is "Deny", and   *)
(* the call's failure does not leave evaluate_policy.                      *)
C6_AllowIffExplicitAllow ==
    \A p \in Procs :
        (Done(p) /\ EngineCalled(p)) =>
            /\ Returned(p)
            /\ Effect(p) = "Allow" <=> ExplicitAllow(trace[p].vp[1])
            /\ Effect(p) = "Deny" <=> ~ExplicitAllow(trace[p].vp[1])

(* A response that carries no decision *)
C6_Witness ==
    \E p \in Procs :
        /\ Done(p) /\ Returned(p) /\ EngineCalled(p)
        /\ trace[p].vp[1] = VpResponse(EmptyDict)
        /\ Effect(p) = "Deny"

(* The principal lambda_handler reads from verified claims, line 227 *)
TokenPrincipal(p) == DictGet(TokenClaims(p), USERNAME, S("unknown"))
TransportError(vp) == vp.kind \in {"EndpointConnectionError", "ReadTimeoutError"}

(* C7 as stated: the principal id of the returned document (principalId    *)
(* and the context entry) is the principal of the token whenever decoding  *)
(* succeeded, and then is not the "unknown" sentinel when the engine call  *)
(* raises a transport error; it is "unknown", with Deny, when the token    *)
(* fails verification.                                                     *)
C7_PrincipalWheneverDecoded ==
    \A p \in Procs :
        (Done(p) /\ Returned(p)) =>
            IF Verified(p)
            THEN /\ Doc(p).principalId = TokenPrincipal(p)
                 /\ HasEntry(Doc(p).context, CONTEXT_KEY, TokenPrincipal(p))
                 /\ (EngineCalled(p) /\ TransportError(trace[p].vp[1])) =>
                        /\ Effect(p) = "Deny"
                        /\ Doc(p).principalId # S("unknown")
            ELSE /\ Doc(p).principalId = S("unknown")
                 /\ HasEntry(Doc(p).context, CONTEXT_KEY, S("unknown"))
                 /\ Effect(p) = "Deny"

(* C7 amended: the principal id of the returned document (principalId and  *)
(* the context entry) is the principal read from the token (its username   *)
(* claim, "unknown" when it has none) whenever the token was verified and  *)
(* its audience and issuer matched, in particular when the engine call     *)
(* raises a transport error (effect Deny); it is the "unknown" sentinel,   *)
(* with effect Deny, when verification or the audience/issuer validation   *)
(* failed, so that extraction never occurred.                              *)
C7_PrincipalOnceExtracted ==
    \A p \in Procs :
        (Done(p) /\ Returned(p)) =>
            IF Verified(p) /\ AudIssMatch(TokenClaims(p))
            THEN /\ Doc(p).principalId = TokenPrincipal(p)
                 /\ HasEntry(Doc(p).context, CONTEXT_KEY, TokenPrincipal(p))
                 /\ (EngineCalled(p) /\ TransportError(trace[p].vp[1])) =>
                        Effect(p) = "Deny"
            ELSE /\ Doc(p).principalId = S("unknown")
                 /\ HasEntry(Doc(p).context, CONTEXT_KEY, S("unknown"))
                 /\ Effect(p) = "Deny"

(* The engine call fails in transport for a token that names its principal *)
C7_Witness ==
    \E p \in Procs :
        /\ Done(p) /\ Returned(p)
        /\ EngineCalled(p) /\ TransportError(trace[p].vp[1])
        /\ Doc(p).principalId = S("alice")
        /\ HasEntry(Doc(p).context, CONTEXT_KEY, S("alice"))
        /\ Effect(p) = "Deny"

(* C8: when the token verifies, audience and issuer match and the engine   *)
(* returns ALLOW, the returned document has a single statement, its Effect *)
(* is Allow and its context holds the principal read from the token.       *)
C8_AllowCarriesPrincipal ==
    \A p \in Procs :
        (/\ Done(p)
         /\ Verified(p)
         /\ AudIssMatch(TokenClaims(p))
         /\ EngineAllowed(p)) =>
            /\ Returned(p)
            /\ Len(Statements(p)) = 1
            /\ Effect(p) = "Allow"
            /\ HasEntry(Doc(p).context, CONTEXT_KEY, TokenPrincipal(p))

(* An Allow for a token verified on the first attempt *)
C8_Witness ==
    \E p \in Procs :
        /\ Done(p) /\ Returned(p)
        /\ VerifiedFirst(p)
        /\ EngineAllowed(p)
        /\ Effect(p) = "Allow"
        /\ HasEntry(Doc(p).context, CONTEXT_KEY, S("alice"))

(* The claims of the token that carry the custom-attribute prefix *)
Prefixed(claims) == {i \in 1..Len(claims) : StartsWith(claims[i].k, PREFIX)}

(* C9: the extracted custom attributes hold exactly one entry per claim    *)
(* whose name starts with the prefix; the entry's key is the claim name    *)
(* without that leading prefix and nothing else changed, its value is the  *)
(* claim's value; claims without the prefix yield nothing.                 *)
C9_LeadingPrefixStripped ==
    \A p \in Procs :
        loc[p].requests # <<>> =>
            LET claims == TokenClaims(p)
                attrs == loc[p].custom_attrs
            IN  /\ \A i \in Prefixed(claims) :
                        HasEntry(attrs, Tail(claims[i].k), claims[i].v)
                /\ \A j \in 1..Len(attrs) :
                        \E i \in Prefixed(claims) :
                            attrs[j] = Pair(Tail(claims[i].k), claims[i].v)
                /\ Len(attrs) = Cardinality(Prefixed(claims))

(* The group lambda_handler is to read from verified claims: the first     *)
(* entry of the group claim, the sentinel when it is absent or empty       *)
TokenGroup(claims) ==
    IF ~DictHas(claims, GROUPS) THEN S("Unknown")
    ELSE LET entries == IterItems(DictGet(claims, GROUPS, PyNone))
         IN  IF Len(entries) = 0 THEN S("Unknown") ELSE entries[1]

(* C10: in the request submitted to the policy engine the principal's      *)
(* "group" attribute is the first entry of the token's group claim, or the *)
(* sentinel when the claim is absent or empty, whatever custom attributes  *)
(* the token carries.                                                      *)
C10_GroupFromGroupClaim ==
    \A p \in Procs :
        loc[p].requests # <<>> =>
            HasEntry(loc[p].requests[1].entities.entityList[1].attributes,
                     K("group"), [string |-> TokenGroup(TokenClaims(p))])

----------------------------------------------------------------------------
Request(p) == loc[p].requests[1]
PrincipalEntity(p) == Request(p).entities.entityList[1]

(* C11: every request built has an entity list of exactly one entity whose *)
(* identifier (type and id) is the principal reference of the request, the *)
(* principal being the one read from the token, "unknown" included.        *)
C11_EntityIsPrincipal ==
    \A p \in Procs :
        loc[p].requests # <<>> =>
            /\ Len(Request(p).entities.entityList) = 1
            /\ PrincipalEntity(p).identifier = Request(p).principal
            /\ Request(p).principal =
                    [entityType |-> "ExampleCo::Connectiv::User",
                     entityId |-> TokenPrincipal(p)]

(* A request for a token without a username claim *)
C11_Witness ==
    \E p \in Procs :
        /\ loc[p].requests # <<>>
        /\ Request(p).principal.entityId = S("unknown")
        /\ PrincipalEntity(p).identifier.entityId = S("unknown")

KeysOf(d) == {d[i].k : i \in 1..Len(d)}

(* C12: in every request built the principal's attributes have exactly the *)
(* keys "group" and the custom-attribute keys, each once; "group" is there *)
(* also when the fallback group applies; every value is a supplied value   *)
(* under the single tag "string": each custom attribute carries its own    *)
(* value, and "group" carries the group value unless a custom attribute of *)
(* that name is supplied.                                                  *)
C12_AttributeMap ==
    \A p \in Procs :
        loc[p].requests # <<>> =>
            LET attrs == PrincipalEntity(p).attributes
                custom == loc[p].custom_attrs
            IN  /\ KeysOf(attrs) = {K("group")} \cup KeysOf(custom)
                /\ Len(attrs) = Cardinality(KeysOf(attrs))
                /\ \A i \in 1..Len(attrs) : DOMAIN attrs[i].v = {"string"}
                /\ \A i \in 1..Len(custom) :
                        HasEntry(attrs, custom[i].k, [string |-> custom[i].v])
                /\ K("group") \notin KeysOf(custom) =>
                        HasEntry(attrs, K("group"),
                                 [string |-> TokenGroup(TokenClaims(p))])

(* The fallback group next to custom attributes *)
C12_Witness ==
    \E p \in Procs :
        /\ loc[p].requests # <<>>
        /\ ~DictHas(TokenClaims(p), GROUPS)
        /\ loc[p].custom_attrs # EmptyDict
        /\ HasEntry(PrincipalEntity(p).attributes, K("group"),
                    [string |-> S("Unknown")])

(* The decision of an evaluation: the engine's explicit ALLOW, else Deny *)
Decision(p) == IF EngineAllowed(p) THEN "Allow" ELSE "Deny"

(* C13: every returned document has exactly one statement; its Effect is   *)
(* the decision, its Action the gateway's invoke action, its Resource the  *)
(* methodArn of the event, or "*" when the event carries none; this holds  *)
(* for the "unknown" principal too.                                        *)
C13_SingleStatement ==
    \A p \in Procs :
        (Done(p) /\ Returned(p)) =>
            /\ Len(Statements(p)) = 1
            /\ Statements(p)[1].Effect = Decision(p)
            /\ Statements(p)[1].Action = "execute-api:Invoke"
            /\ IF \E i \in 1..Len(loc[p].event) : loc[p].event[i].k = K("methodArn")
               THEN HasEntry(loc[p].event, K("methodArn"), Statements(p)[1].Resource)
               ELSE Statements(p)[1].Resource = S("*")

(* A document for the unknown principal and an event without methodArn *)
C13_Witness ==
    \E p \in Procs :
        /\ Done(p) /\ Returned(p)
        /\ loc[p].event = EmptyDict
        /\ Doc(p).principalId = S("unknown")
        /\ Statements(p)[1].Resource = S("*")
        /\ Statements(p)[1].Effect = "Deny"

(* C14: for any caller-supplied context the context of the document holds  *)
(* the principal id under the fixed key, equal to principalId, and every   *)
(* caller-supplied entry under any other key, unchanged, and nothing else. *)
C14_ContextMerged ==
    call.docs # <<>> =>
        LET doc == call.docs[1]
            supplied == IF call.context_data.none THEN EmptyDict
                        ELSE call.context_data.d
        IN  /\ doc.principalId = call.principal_id
            /\ HasEntry(doc.context, K("username"), call.principal_id)
            /\ \A i \in 1..Len(supplied) :
                    supplied[i].k # K("username") =>
                        HasEntry(doc.context, supplied[i].k, supplied[i].v)
            /\ KeysOf(doc.context) = KeysOf(supplied) \cup {K("username")}
            /\ Len(doc.context) = Cardinality(KeysOf(doc.context))

(* A caller context with another entry and an entry under the fixed key *)
C14_Witness ==
    /\ call.docs # <<>>
    /\ ~call.context_data.none
    /\ HasEntry(call.context_data.d, K("username"), S("mallory"))
    /\ HasEntry(call.context_data.d, K("tenant"), S("t1"))
    /\ call.principal_id = S("alice")
    /\ HasEntry(call.docs[1].context, K("tenant"), S("t1"))
    /\ HasEntry(call.docs[1].context, K("username"), S("alice"))

----------------------------------------------------------------------------
(* The key sets a fetch can return: what the identity provider publishes   *)
(* in some epoch, or the empty set                                         *)
CompleteSets == {EmptyJwks} \cup {KeysAt(e) : e \in 0..MaxRotations}

(* C15: with several evaluations in the same process, the cache always     *)
(* holds, and every verification reads, a complete set: one that a single  *)
(* fetch returned, never a mix of an old and a new set.                    *)
C15_ReadsCompleteSet ==
    /\ JWKS_CACHE \in CompleteSets
    /\ \A p \in Procs :
        /\ trace[p].attempts >= 1 => trace[p].firstJwks \in CompleteSets
        /\ trace[p].retryJwks # <<>> => trace[p].retryJwks[1] \in CompleteSets

(* An evaluation in flight has read the old set and another has since      *)
(* replaced it by a new one                                                *)
C15_Witness ==
    \E p, q \in Procs :
        /\ p # q
        /\ pc[p] = "vp"
        /\ trace[p].firstJwks # EmptyJwks
        /\ trace[q].stores = 1
        /\ JWKS_CACHE = loc[q].new_jwks
        /\ JWKS_CACHE # EmptyJwks
        /\ JWKS_CACHE # trace[p].firstJwks

(* C16: fetch_jwks returns to its caller whatever the request does: when   *)
(* the request times out, answers an error status or a body that does not  *)
(* parse, it returns the empty set, at module import and in a refresh.     *)
C16_FetchNeverFails ==
    /\ boot.fetched =>
            /\ boot.jwks # <<>>
            /\ phase = "warm"
            /\ boot.fetchFailed => boot.jwks = <<{}>>
    /\ \A p \in Procs :
        trace[p].fetches >= 1 =>
            /\ trace[p].fetched # <<>>
            /\ pc[p] # "fetch"
            /\ trace[p].fetchFailed =>
                    (trace[p].fetched = <<{}>> /\ loc[p].new_jwks = {})

(* The request fails at import and again in a refresh *)
C16_Witness ==
    /\ boot.fetchFailed
    /\ \E p \in Procs :
        /\ trace[p].fetches = 1
        /\ trace[p].fetchFailed
        /\ Done(p) /\ Returned(p)

(* C17: when the key set is empty at process start and a refresh yields    *)
(* the empty set too, every evaluation ends in Deny with a well-formed     *)
(* document.                                                               *)
C17_UnreachableDeniesAll ==
    \A p \in Procs :
        (/\ Done(p)
         /\ boot.fetchFailed
         /\ JWKS_CACHE = {}
         /\ trace[p].attempts >= 1 => trace[p].firstJwks = {}
         /\ trace[p].fetches >= 1 => trace[p].fetchFailed) =>
            /\ out[p].raised = "none"
            /\ Len(out[p].docs) = 1
            /\ Len(Statements(p)) = 1
            /\ Effect(p) = "Deny"

(* C18: after the import the cache changes only in the store of a refresh, *)
(* to the set that refresh fetched, and no evaluation fetches or stores    *)
(* more than once.                                                         *)
C18_OnlyRefreshChangesCache ==
    [][/\ \A p \in Procs : trace'[p].fetches <= 1 /\ trace'[p].stores <= 1
       /\ JWKS_CACHE' # JWKS_CACHE =>
            \/ phase = "cold"
            \/ \E p \in Procs :
                /\ pc[p] = "store"
                /\ trace'[p].stores = trace[p].stores + 1
                /\ JWKS_CACHE' = loc[p].new_jwks]_vars

(* A refresh has changed the cache *)
C18_Witness ==
    \E p \in Procs :
        /\ trace[p].fetches = 1
        /\ trace[p].stores = 1
        /\ JWKS_CACHE = loc[p].new_jwks
        /\ JWKS_CACHE # trace[p].firstJwks

AllConfigured ==
    {"AWS_REGION", "USER_POOL_ID", "CLIENT_ID", "POLICY_STORE_ID"} \subseteq env

(* C19: when a required configuration value is absent or empty, the import *)
(* fails before the key fetch and the creation of the client, and no       *)
(* evaluation is served.                                                   *)
C19_StartupFailsWithoutConfig ==
    ~AllConfigured =>
        /\ phase \in {"cold", "failed"}
        /\ ~boot.fetched
        /\ ~boot.client
        /\ JWKS_CACHE = {}
        /\ \A p \in Procs : pc[p] = "idle" /\ trace[p].attempts = 0
                            /\ out[p].docs = <<>>

(* The import has failed for a missing value *)
C19_Witness ==
    /\ ~AllConfigured
    /\ "POLICY_STORE_ID" \notin env
    /\ phase = "failed"

(* C20: the principal id of a returned document (principalId and the       *)
(* context entry) is never null; for a verified token with matching        *)
(* audience and issuer it is the value of the principal claim when the     *)
(* token carries one and "unknown" otherwise.                              *)
C20_PrincipalNeverNull ==
    \A p \in Procs :
        (Done(p) /\ Returned(p)) =>
            /\ Doc(p).principalId.ty # "null"
            /\ \A i \in 1..Len(Doc(p).context) :
                    Doc(p).context[i].k = K("username") =>
                        Doc(p).context[i].v.ty # "null"
            /\ (Verified(p) /\ AudIssMatch(TokenClaims(p))) =>
                    IF \E i \in 1..Len(TokenClaims(p)) :
                            TokenClaims(p)[i].k = K("cognito:username")
                    THEN HasEntry(TokenClaims(p), K("cognito:username"),
                                  Doc(p).principalId)
                    ELSE Doc(p).principalId = S("unknown")

----------------------------------------------------------------------------
(* C21: verification is Verify, then on a key miss one Refresh+Retry, then *)
(* Accept or Reject. A token is accepted at once only against the cached   *)
(* set, and on the retry only after a key miss and against the fetched     *)
(* set; a token whose key the cached set lacks and the fetched set holds   *)
(* is accepted on the retry, its claims are validated (a mismatch is       *)
(* denied without an engine call) and a well-formed token reaches the      *)
(* policy-engine call.                                                     *)
C21_VerifyRefreshRetry ==
    \A p \in Procs :
        /\ trace[p].verified = "first" =>
                /\ trace[p].attempts = 1 /\ trace[p].fetches = 0
                /\ Genuine(loc[p].token, trace[p].firstJwks)
        /\ trace[p].verified = "retry" =>
                /\ trace[p].attempts = 2 /\ trace[p].fetches = 1
                /\ KeyMiss(loc[p].token, trace[p].firstJwks)
                /\ trace[p].retryJwks = trace[p].fetched
                /\ Genuine(loc[p].token, trace[p].fetched[1])
        /\ (/\ trace[p].attempts >= 1
            /\ KeyMiss(loc[p].token, trace[p].firstJwks)
            /\ trace[p].fetched # <<>>
            /\ pc[p] # "store"
            /\ Genuine(loc[p].token, trace[p].fetched[1])) =>
                /\ trace[p].verified = "retry"
                /\ trace[p].retryJwks = trace[p].fetched
                /\ trace[p].claims = TokenClaims(p)
                /\ trace[p].checked = AudIssMatch(TokenClaims(p))
                /\ ~AudIssMatch(TokenClaims(p)) =>
                        (Done(p) /\ Returned(p) /\ Effect(p) = "Deny"
                            /\ ~EngineCalled(p))
                /\ loc[p].token.s[2] = "full" =>
                        (pc[p] = "vp" \/ (Done(p) /\ EngineCalled(p)))

(* A token signed with a rotated-in key: the populated cache lacks the     *)
(* key, the fetched set holds it, and the engine's ALLOW is returned       *)
C21_Witness ==
    \E p \in Procs :
        /\ Done(p) /\ Returned(p)
        /\ trace[p].firstJwks # {}
        /\ KeyMiss(loc[p].token, trace[p].firstJwks)
        /\ trace[p].verified = "retry"
        /\ EngineAllowed(p)
        /\ Effect(p) = "Allow"

(* C22: the store of a refresh leaves the cache equal to the set that      *)
(* refresh's fetch returned, the empty set when the fetch failed, whatever *)
(* the cache held before; an evaluation that starts verifies against the   *)
(* cache as it then is.                                                    *)
C22_RefreshReplacesWholesale ==
    [][\A p \in Procs :
        /\ (pc[p] = "store" /\ pc'[p] # "store") =>
                /\ JWKS_CACHE' = trace[p].fetched[1]
                /\ trace[p].fetchFailed => JWKS_CACHE' = {}
        /\ (pc[p] = "idle" /\ trace'[p].attempts >= 1) =>
                trace'[p].firstJwks = JWKS_CACHE]_vars

(* The import filled the cache, a failed refresh emptied it, and a later   *)
(* evaluation verifies against the empty set                               *)
C22_Witness ==
    /\ boot.fetched /\ boot.jwks # <<{}>>
    /\ JWKS_CACHE = {}
    /\ \E p \in Procs :
        /\ trace[p].attempts >= 1
        /\ trace[p].fetches = 0
        /\ trace[p].firstJwks = {}

(* C23: every evaluation that has started eventually ends with a returned  *)
(* policy document, after at most one key fetch and at most one            *)
(* policy-engine call.                                                     *)
C23_EventuallyReturns ==
    \A p \in Procs :
        [](pc[p] # "idle" =>
            <>(/\ Done(p) /\ Returned(p)
               /\ trace[p].fetches <= 1
               /\ Len(trace[p].vp) <= 1))

Resource(p) == Statements(p)[1].Resource
EventToken(p) == DictGet(loc[p].event, TOKEN, PyNone)

(* C24: two finished evaluations of the same token with the same key sets  *)
(* read and fetched and the same engine answer submit the same query and   *)
(* end alike, with the same Effect, principal and context, whatever their  *)
(* methodArn; the methodArn (or "*") is only the Resource of the statement. *)
C24_EffectIgnoresMethodArn ==
    \A p, q \in Procs :
        (/\ Done(p) /\ Done(q)
         /\ EventToken(p) = EventToken(q)
         /\ trace[p] = trace[q]) =>
            /\ loc[p].requests = loc[q].requests
            /\ out[p].raised = out[q].raised
            /\ Len(out[p].docs) = Len(out[q].docs)
            /\ Returned(p) =>
                    /\ Effect(p) = Effect(q)
                    /\ Doc(p).principalId = Doc(q).principalId
                    /\ Doc(p).context = Doc(q).context
                    /\ Resource(p) = DictGet(loc[p].event, ARN, S("*"))

(* The same token allowed for two events, one of them without methodArn *)
C24_Witness ==
    \E p, q \in Procs :
        /\ Done(p) /\ Done(q)
        /\ EventToken(p) = EventToken(q)
        /\ trace[p] = trace[q]
        /\ EngineAllowed(p)
        /\ Effect(p) = "Allow" /\ Effect(q) = "Allow"
        /\ Resource(p) = ARN1
        /\ Resource(q) = S("*")

(* The epoch in which the identity provider published a key set *)
EpochOf(jwks) == IF jwks = {} THEN -1 ELSE CHOOSE e \in 0..MaxRotations : KeysAt(e) = jwks
Quiescent == \A r \in Procs : pc[r] \in {"idle", "done"}

(* C25: an evaluation that refreshes retries against the set it fetched    *)
(* itself, and once no evaluation is in flight the cache holds the result  *)
(* of the latest fetch: no finished refresh has fetched a newer set than   *)
(* the cache holds.                                                        *)
C25_LatestFetchWins ==
    \A p \in Procs :
        /\ trace[p].stores = 1 => trace[p].retryJwks = trace[p].fetched
        /\ (Quiescent /\ Done(p) /\ trace[p].stores = 1) =>
                EpochOf(JWKS_CACHE) >= EpochOf(trace[p].fetched[1])

====
